---- MODULE Spec2Model ----
(***************************************************************************)
(* Model of tsinspector.py: the Inspector class, its constructor, the      *)
(* ancestor propagation helper, the per-path check and the tree walk.      *)
(*                                                                         *)
(* A path is a sequence of one-character strings, so that string           *)
(* concatenation, slicing and os.path.dirname are computed as Python       *)
(* computes them.  An optional argument is <<>> (None) or <<v>>.           *)
(***************************************************************************)
EXTENDS Integers, Sequences, FiniteSets, TLC

\* ------------------------------------------------------------------ bounds
MaxStamp == 3      \* timestamps range over -MaxNeg .. MaxStamp
MaxNeg   == 2
MaxInst  == 2      \* Inspector instances alive in one run of the program
MaxTouch == 1      \* changes of the tree: timestamp fields that differ from
                   \* Old, plus entries whose stat() fails
MaxCalls == 2      \* propagate calls made by the propagate harness

Stamps == (0 - MaxNeg)..MaxStamp
Old    == MaxStamp                 \* timestamp of an untouched entry
Recent == MaxStamp - 1             \* timestamp of the untouched file a/f
Kinds  == {"created", "accessed", "modified"}

\* ------------------------------------------------------------------ strings
Sep == "/"                                         \* os.path.sep
None == <<>>
Some(v) == <<v>>
IsNone(o) == o = <<>>
Val(o) == o[1]

Max2(a, b) == IF a >= b THEN a ELSE b

\* str.rfind(sep) + 1 : 1-based index of the last separator, 0 when none
RFindSep(p) ==
    IF \E j \in 1..Len(p) : p[j] = Sep
    THEN CHOOSE j \in 1..Len(p) :
            p[j] = Sep /\ \A k \in (j + 1)..Len(p) : p[k] # Sep
    ELSE 0

AllSep(p) == \A j \in 1..Len(p) : p[j] = Sep

\* str.rstrip(sep)
RECURSIVE RStripSep(_)
RStripSep(p) ==
    IF p # <<>> /\ p[Len(p)] = Sep THEN RStripSep(SubSeq(p, 1, Len(p) - 1)) ELSE p

\* posixpath.dirname, the default of _propagate's dirname parameter
dirname(p) ==
    LET head == SubSeq(p, 1, RFindSep(p))
    IN  IF head # <<>> /\ ~AllSep(head) THEN RStripSep(head) ELSE head

\* posixpath.join(a, b), as os.walk uses it to name a subdirectory
Join(a, b) ==
    IF b # <<>> /\ b[1] = Sep THEN b
    ELSE IF a = <<>> \/ a[Len(a)] = Sep THEN a \o b
    ELSE a \o <<Sep>> \o b

\* The names of a path as the operating system resolves it: runs of
\* non-separator characters; repeated and trailing separators are ignored.
RECURSIVE SplitFrom(_, _, _)
SplitFrom(p, i, name) ==
    IF i > Len(p) THEN (IF name = <<>> THEN <<>> ELSE <<name>>)
    ELSE IF p[i] = Sep
         THEN (IF name = <<>> THEN <<>> ELSE <<name>>) \o SplitFrom(p, i + 1, <<>>)
         ELSE SplitFrom(p, i + 1, Append(name, p[i]))
Split(p) == SplitFrom(p, 1, <<>>)

\* ------------------------------------------------------------------ maps
EmptyMap == [x \in {} |-> 0]
Put(m, k, v) == [x \in (DOMAIN m) \cup {k} |-> IF x = k THEN v ELSE m[x]]
Get(m, k, d) == IF k \in DOMAIN m THEN m[k] ELSE d

\* ------------------------------------------------------------------ the tree
\* /r          directory
\* /r/x        file
\* /r/a        directory
\* /r/a/f      file
\* /r/b        directory, no files
NmR == <<"r">>
NmX == <<"x">>
NmA == <<"a">>
NmF == <<"f">>
NmB == <<"b">>
Entries == { <<NmR>>, <<NmR, NmX>>, <<NmR, NmA>>, <<NmR, NmA, NmF>>, <<NmR, NmB>> }

\* os.walk(top) top-down: each directory as the names joined below top, with
\* the file names directly inside it
TreeDirs == << [names |-> <<>>,      files |-> <<NmX>>],
               [names |-> <<NmA>>,   files |-> <<NmF>>],
               [names |-> <<NmB>>,   files |-> <<>>] >>

RECURSIVE JoinAll(_, _)
JoinAll(top, names) ==
    IF names = <<>> THEN top ELSE JoinAll(Join(top, Head(names)), Tail(names))

walk(top) == [d \in 1..Len(TreeDirs) |->
                [root  |-> JoinAll(top, TreeDirs[d].names),
                 files |-> TreeDirs[d].files]]

\* The timestamps the tree starts with: a/f is newer than the rest.
Base(e) == IF e = <<NmR, NmA, NmF>> THEN Recent ELSE Old

TopNoSep == <<"/", "r">>              \* "/r"
TopSep   == <<"/", "r", "/">>         \* "/r/"
TopGone  == <<"/", "n">>              \* "/n" does not exist

Exists(p) == Split(p) \in Entries                  \* os.path.exists

\* The relative paths inspect hands to _check, in order: for every step of
\* the walk the directory itself, root[topdirLen:] + os.path.sep, and then
\* that string followed by each file name.
RECURSIVE FilePaths(_, _)
FilePaths(rel, files) ==
    IF files = <<>> THEN <<>>
    ELSE <<rel \o Head(files)>> \o FilePaths(rel, Tail(files))

RelRoot(topdir, root) == SubSeq(root, Len(topdir) + 1, Len(root)) \o <<Sep>>

RECURSIVE PathsFrom(_, _, _)
PathsFrom(topdir, steps, d) ==
    IF d > Len(steps) THEN <<>>
    ELSE LET rel == RelRoot(topdir, steps[d].root)
         IN  <<rel>> \o FilePaths(rel, steps[d].files) \o PathsFrom(topdir, steps, d + 1)

ScanPaths(topdir) == PathsFrom(topdir, walk(topdir), 1)

\* ------------------------------------------------------------------ state
VARIABLES
    created, accessed, modified, errors,   \* the class attributes of Inspector
    insts,          \* the Inspector objects constructed so far, in order
    runState,       \* per object: "Created", "Walking", "Done", "Raised"
    lastCall,       \* arguments and outcome of the latest constructor call
    fs, broken,     \* the tree: timestamps per entry, and failing stat calls
    cur, idx,       \* inspect/_check: the scanning object (0: none), the path index
    pc,             \* position inside _check / _propagate
    st, candidate,  \* _check: the stat result of the current path, the candidate
    pdest, ppath, pstamp,   \* _propagate: its dest, path and stamp
    turns,          \* _propagate: iterations of the running loop, modulo 2
    recorded,       \* kinds _check handed to propagate for the current path
    matchLog, errorLog,     \* invocations of report_matches / report_errors
    calls, before,  \* propagate harness: calls made so far, map at call time
    last            \* propagate harness: the latest call, and whether it was
                    \* a repetition of the call before it

vars == <<created, accessed, modified, errors, insts, runState, lastCall, fs,
          broken, cur, idx, pc, st, candidate, pdest, ppath, pstamp, turns,
          recorded, matchLog, errorLog, calls, before, last>>

classVars == <<created, accessed, modified, errors>>
envVars   == <<fs, broken>>
frameVars == <<cur, idx, pc, st, candidate, pdest, ppath, pstamp, turns,
               recorded>>
logVars   == <<matchLog, errorLog>>
toolVars  == <<calls, before, last>>

NoStat == [ctime |-> 0, atime |-> 0, mtime |-> 0]
NoLast == [path |-> <<>>, stamp |-> 0, again |-> FALSE]
NoCall == [topdir |-> <<>>, start |-> None, end |-> None, window |-> None,
           result |-> "none"]

Init ==
    /\ created = EmptyMap /\ accessed = EmptyMap
    /\ modified = EmptyMap /\ errors = EmptyMap
    /\ insts = <<>> /\ runState = <<>>
    /\ lastCall = NoCall
    /\ fs = [e \in Entries |->
                [ctime |-> Base(e), atime |-> Base(e), mtime |-> Base(e)]]
    /\ broken = [e \in Entries |-> "ok"]
    /\ cur = 0 /\ idx = 0 /\ pc = "idle"
    /\ st = NoStat /\ candidate = 0
    /\ pdest = "created" /\ ppath = <<>> /\ pstamp = 0 /\ turns = 0
    /\ recorded = {}
    /\ matchLog = <<>> /\ errorLog = <<>>
    /\ calls = {} /\ before = EmptyMap /\ last = NoLast

\* ------------------------------------------------------------------ __init__
\* Lines 41-50: start and end after the argument check, or the exception the
\* check ends in.  ArgumentError is no name of the module or of the builtins,
\* so evaluating "raise ArgumentError(...)" raises NameError; None - window
\* raises TypeError.
ResolveEndBackward(start, window) == start - window
ResolveEnd(start, window) == start + window
ResolveStart(end, window) == end - window

resolve(start, end, window) ==
    IF ~IsNone(start) /\ ~IsNone(end)
    THEN [err |-> "", start |-> Val(start), end |-> Val(end)]
    ELSE IF ~IsNone(start)
    THEN IF IsNone(window)
         THEN [err |-> "NameError", start |-> 0, end |-> 0]
         ELSE [err |-> "", start |-> Val(start),
               end |-> ResolveEnd(Val(start), Val(window))]
    ELSE IF IsNone(window)
         THEN [err |-> "NameError", start |-> 0, end |-> 0]
         ELSE IF IsNone(end)
              THEN [err |-> "TypeError", start |-> 0, end |-> 0]
              ELSE [err |-> "", start |-> ResolveStart(Val(end), Val(window)),
                    end |-> Val(end)]

\* Lines 53-56: self.start and self.end are first set to min and max, then
\* both are assigned again from start and end.
StoredStart(start, end) == start
StoredEnd(start, end) == end

Inspector_init(topdir, start, end, window, mcb, ecb) ==
    /\ pc = "idle"
    /\ Len(insts) < MaxInst
    /\ LET r == resolve(start, end, window)
           result == IF ~Exists(topdir) THEN "ValueError"
                     ELSE IF r.err # "" THEN r.err ELSE "ok"
       IN  /\ lastCall' = [topdir |-> topdir, start |-> start, end |-> end,
                           window |-> window, result |-> result]
           /\ IF result = "ok"
              THEN /\ insts' = Append(insts,
                          [topdir |-> topdir,
                           start |-> StoredStart(r.start, r.end),
                           end |-> StoredEnd(r.start, r.end),
                           matchesCb |-> mcb, errorCb |-> ecb])
                   /\ runState' = Append(runState, "Created")
              ELSE UNCHANGED <<insts, runState>>
    /\ UNCHANGED <<classVars, envVars, frameVars, logVars, toolVars>>

\* Constructor arguments of the construction-only specification
TopDirs   == {TopNoSep, TopSep, TopGone}
OptStamp  == {None} \cup {Some(t) : t \in Stamps}
OptWindow == {None} \cup {Some(w) : w \in (0 - MaxNeg)..MaxNeg}

CtorNext ==
    \E topdir \in TopDirs, start \in OptStamp, end \in OptStamp,
       window \in OptWindow, mcb \in BOOLEAN, ecb \in BOOLEAN :
        /\ lastCall.result = "none"
        /\ Inspector_init(topdir, start, end, window, mcb, ecb)

CtorSpec == Init /\ [][CtorNext]_vars

\* ------------------------------------------------------------------ the tree changes
ErrKinds == {"PermissionError", "FileNotFoundError", "OSError"}

Touched(f) == {ek \in Entries \X {"ctime", "atime", "mtime"} : f[ek[1]][ek[2]] # Base(ek[1])}

\* Some program sets one timestamp of one entry (no scan is running).
Touch(e, k, t) ==
    /\ pc = "idle" /\ cur = 0
    /\ fs[e][k] # t
    /\ fs' = [fs EXCEPT ![e][k] = t]
    /\ Cardinality(Touched(fs')) + Cardinality({x \in Entries : broken[x] # "ok"})
          <= MaxTouch
    /\ UNCHANGED <<classVars, insts, runState, lastCall, broken, frameVars,
                   logVars, toolVars>>

\* stat() of one entry starts to fail with the given exception.
Break(e, err) ==
    /\ pc = "idle" /\ cur = 0
    /\ broken[e] = "ok"
    /\ Cardinality(Touched(fs)) + Cardinality({x \in Entries : broken[x] # "ok"})
          < MaxTouch
    /\ broken' = [broken EXCEPT ![e] = err]
    /\ UNCHANGED <<classVars, insts, runState, lastCall, fs, frameVars,
                   logVars, toolVars>>

\* os.stat(fullpath): the timestamps of the entry, or the exception raised
Stat(fullpath) ==
    LET e == Split(fullpath)
    IN  IF e \notin Entries THEN [err |-> "FileNotFoundError", rec |-> NoStat]
        ELSE IF broken[e] # "ok" THEN [err |-> broken[e], rec |-> NoStat]
        ELSE [err |-> "", rec |-> fs[e]]

\* ------------------------------------------------------------------ inspect / _check
Paths   == ScanPaths(insts[cur].topdir)
CurPath == Paths[idx]
FullPath == insts[cur].topdir \o CurPath               \* addPfx(path), line 99

\* Lines 135-139: the walk starts; the first path goes to _check.
inspect(i) ==
    /\ pc = "idle" /\ cur = 0
    /\ i \in 1..Len(insts)
    /\ runState[i] = "Created"
    /\ cur' = i /\ idx' = 1 /\ pc' = "stat"
    /\ runState' = [runState EXCEPT ![i] = "Walking"]
    /\ UNCHANGED <<classVars, insts, lastCall, envVars, st, candidate, pdest,
                   ppath, pstamp, turns, recorded, logVars, toolVars>>

\* The for loops of _check and inspect move to the next path, or inspect
\* returns when the walk is exhausted.
NextPath ==
    /\ st' = NoStat /\ candidate' = 0 /\ recorded' = {}
    /\ IF idx < Len(Paths)
       THEN /\ idx' = idx + 1 /\ pc' = "stat"
            /\ UNCHANGED <<cur, runState>>
       ELSE /\ idx' = 0 /\ pc' = "idle" /\ cur' = 0
            /\ runState' = [runState EXCEPT ![cur] = "Done"]

\* Line 102: the exceptions the except clause names
CaughtAll(err) == TRUE
CaughtNotFound(err) == err = "FileNotFoundError"
Caught(err) == err \in {"PermissionError", "FileNotFoundError"}

\* Lines 99-108: stat the path; a caught exception is stored in errors and
\* reported, any other exception leaves _check and inspect.
check_stat ==
    /\ pc = "stat"
    /\ LET r == Stat(FullPath)
       IN  IF r.err = ""
           THEN /\ st' = r.rec /\ candidate' = 0 /\ recorded' = {}
                /\ pc' = "ctime"
                /\ UNCHANGED <<errors, errorLog, cur, idx, runState>>
           ELSE IF Caught(r.err)
           THEN /\ errors' = Put(errors, FullPath, r.err)
                /\ errorLog' = IF insts[cur].errorCb
                               THEN Append(errorLog,
                                      [inst |-> cur, path |-> FullPath, err |-> r.err])
                               ELSE errorLog
                /\ NextPath
           ELSE /\ runState' = [runState EXCEPT ![cur] = "Raised"]
                /\ cur' = 0 /\ idx' = 0 /\ pc' = "idle"
                /\ st' = NoStat /\ candidate' = 0 /\ recorded' = {}
                /\ UNCHANGED <<errors, errorLog>>
    /\ UNCHANGED <<created, accessed, modified, insts, lastCall, envVars,
                   pdest, ppath, pstamp, turns, matchLog, toolVars>>

\* Lines 109, 112, 115: the window test
InWindowClosed(start, t, end) == start <= t /\ t <= end
InWindow(start, t, end) == start < t /\ t < end

\* Lines 109-117: st.st_ctime, st.st_atime, st.st_mtime
StampOfMtime(s, field) == s["mtime"]
StampOf(s, field) == s[field]

\* One of the three tests of _check, and the propagate call it guards
check_kind(label, field, dest, next) ==
    /\ pc = label
    /\ IF InWindow(insts[cur].start, StampOf(st, field), insts[cur].end)
       THEN /\ pc' = "propagate"
            /\ pdest' = dest /\ ppath' = CurPath /\ pstamp' = StampOf(st, field)
            /\ recorded' = recorded \cup {dest}
       ELSE /\ pc' = next
            /\ UNCHANGED <<pdest, ppath, pstamp, recorded>>
    /\ UNCHANGED <<classVars, insts, runState, lastCall, envVars, cur, idx, st,
                   candidate, turns, logVars, toolVars>>

check_ctime == check_kind("ctime", "ctime", "created", "atime")
check_atime == check_kind("atime", "atime", "accessed", "mtime")
check_mtime == check_kind("mtime", "mtime", "modified", "notify")

\* Lines 119-120
check_notify ==
    /\ pc = "notify"
    /\ matchLog' = IF candidate # 0 /\ insts[cur].matchesCb
                   THEN Append(matchLog, [inst |-> cur, path |-> FullPath, st |-> st])
                   ELSE matchLog
    /\ NextPath
    /\ UNCHANGED <<classVars, insts, lastCall, envVars, pdest, ppath, pstamp,
                   turns, errorLog, toolVars>>

\* ------------------------------------------------------------------ _propagate
Sentinel == -1                                     \* dest.get(path, -1), line 71

DestMap(d) == CASE d = "created"  -> created
                [] d = "accessed" -> accessed
                [] d = "modified" -> modified

\* Line 72: if stamp < oldval: return
StopEarlyNever(stamp, oldval) == FALSE
StopEarly(stamp, oldval) == stamp < oldval

\* Line 74: dest[path] = stamp
StoredAdded(stamp, oldval) == oldval + stamp
StoredStamp(stamp, oldval) == stamp

NewDest == Put(DestMap(pdest), ppath,
               StoredStamp(pstamp, Get(DestMap(pdest), ppath, Sentinel)))

LoopEnds == ppath = <<>> \/ StopEarly(pstamp, Get(DestMap(pdest), ppath, Sentinel))

\* Lines 70-75, one iteration of the while loop that does not return
propagate_iter ==
    /\ pc = "propagate"
    /\ ~LoopEnds
    /\ created'  = IF pdest = "created"  THEN NewDest ELSE created
    /\ accessed' = IF pdest = "accessed" THEN NewDest ELSE accessed
    /\ modified' = IF pdest = "modified" THEN NewDest ELSE modified
    /\ ppath' = dirname(ppath)
    /\ turns' = 1 - turns
    /\ UNCHANGED <<errors, insts, runState, lastCall, envVars, cur, idx, pc, st,
                   candidate, pdest, pstamp, recorded, logVars, toolVars>>

\* The loop ends (line 70 or line 73) and control is back in the caller:
\* lines 111, 114, 117 of _check set candidate, or the harness is idle again.
propagate_return ==
    /\ pc = "propagate"
    /\ LoopEnds
    /\ IF cur = 0
       THEN /\ pc' = "idle"
            /\ UNCHANGED candidate
       ELSE /\ pc' = CASE pdest = "created"  -> "atime"
                       [] pdest = "accessed" -> "mtime"
                       [] pdest = "modified" -> "notify"
            /\ candidate' = IF pdest = "created" \/ candidate = 0
                            THEN pstamp ELSE candidate
    /\ ppath' = <<>> /\ pstamp' = 0 /\ pdest' = "created" /\ turns' = 0
    /\ UNCHANGED <<classVars, insts, runState, lastCall, envVars, cur, idx, st,
                   recorded, logVars, toolVars>>

\* ------------------------------------------------------------------ specifications
\* Constructor arguments of the scans: the window (-MaxNeg, MaxStamp), whose
\* bounds are timestamps of the tree, given as start and end; the window
\* (-MaxNeg-1, MaxStamp+1), which holds every timestamp, given as end and
\* window; the window (MaxStamp-2, MaxStamp), given as start and window.
ScanWindows ==
    { [start |-> Some(0 - MaxNeg), end |-> Some(MaxStamp), window |-> None],
      [start |-> None, end |-> Some(MaxStamp + 1),
       window |-> Some(MaxNeg + MaxStamp + 2)],
      [start |-> Some(MaxStamp - 2), end |-> None, window |-> Some(2)] }

\* The tree changes before the program starts, then the program runs.
EnvNext ==
    \/ \E e \in Entries, k \in {"ctime", "atime", "mtime"}, t \in Stamps :
          insts = <<>> /\ Touch(e, k, t)
    \/ \E e \in Entries, err \in ErrKinds : insts = <<>> /\ Break(e, err)

ScanNext ==
    \/ \E i \in 1..MaxInst : inspect(i)
    \/ check_stat
    \/ check_ctime
    \/ check_atime
    \/ check_mtime
    \/ check_notify
    \/ propagate_iter
    \/ propagate_return

\* One Inspector, one scan
Next ==
    \/ \E topdir \in {TopNoSep, TopSep}, w \in ScanWindows, cb \in BOOLEAN :
          insts = <<>> /\ Inspector_init(topdir, w.start, w.end, w.window, cb, cb)
    \/ EnvNext
    \/ ScanNext

Spec == Init /\ [][Next]_vars

\* The scheduler runs the one coroutine until it returns: a step that is
\* possible is eventually taken.
FairSpec == Spec /\ WF_vars(Next)

\* The propagate harness: propagate(created, path, stamp) on paths of the
\* shapes inspect produces, and their parents.
PropPaths == { <<>>, <<"/">>, <<"/", "x">>, <<"a">>, <<"a", "/">>,
               <<"a", "/", "f">>, <<"a", "/", "g">>, <<"a", "/", "b", "/", "h">> }

call_propagate(path, stamp) ==
    /\ pc = "idle" /\ cur = 0
    /\ Cardinality(calls) < MaxCalls
    /\ <<path, stamp>> \notin calls
    /\ pc' = "propagate" /\ pdest' = "created" /\ ppath' = path /\ pstamp' = stamp
    /\ calls' = calls \cup {<<path, stamp>>}
    /\ before' = created
    /\ last' = [path |-> path, stamp |-> stamp, again |-> FALSE]
    /\ UNCHANGED <<classVars, insts, runState, lastCall, envVars, cur, idx, st,
                   candidate, turns, recorded, logVars>>

\* The caller makes its latest call once more, with the same arguments.
call_again ==
    /\ pc = "idle" /\ cur = 0
    /\ calls # {} /\ ~last.again
    /\ pc' = "propagate" /\ pdest' = "created"
    /\ ppath' = last.path /\ pstamp' = last.stamp
    /\ before' = created
    /\ last' = [last EXCEPT !.again = TRUE]
    /\ UNCHANGED <<classVars, insts, runState, lastCall, envVars, cur, idx, st,
                   candidate, turns, recorded, logVars, calls>>

\* Several Inspectors of one program, scanning one after the other
SharedNext ==
    \/ \E w \in ScanWindows :
          Inspector_init(TopSep, w.start, w.end, w.window, FALSE, FALSE)
    \/ EnvNext
    \/ ScanNext

SharedSpec == Init /\ [][SharedNext]_vars

PropNext ==
    \/ \E path \in PropPaths, stamp \in Stamps : call_propagate(path, stamp)
    \/ call_again
    \/ propagate_iter
    \/ propagate_return

PropSpec == Init /\ [][PropNext]_vars

\* ------------------------------------------------------------------ claims
\* The parents propagate walks through from p: dirname applied until the
\* empty string, or until dirname returns its argument.
RECURSIVE Chain(_)
Chain(p) ==
    IF p = <<>> \/ dirname(p) = p \/ dirname(p) = <<>> THEN {}
    ELSE {dirname(p)} \cup Chain(dirname(p))

C2_StartLeEnd ==
    \A i \in 1..Len(insts) : insts[i].start <= insts[i].end

\* C3: a scan that has started always ends: inspect returns (or raises).
C3_ScanEnds == (cur # 0) ~> (cur = 0)

\* C4: no probe failure aborts a scan: no inspect call ends in an exception,
\* and every path of the running scan whose stat failed is a key of errors.
C4_NoProbeFailureAborts ==
    /\ \A i \in 1..Len(insts) : runState[i] # "Raised"
    /\ cur # 0 =>
         \A j \in 1..(idx - 1) :
            Stat(insts[cur].topdir \o Paths[j]).err # "" =>
                (insts[cur].topdir \o Paths[j]) \in DOMAIN errors

\* self.created, self.accessed, self.modified, self.errors of object i: no
\* method assigns these attributes, so each names the class attribute.
SelfMaps(i) == <<created, accessed, modified, errors>>

\* C5: the four maps belong to one scan: an Inspector whose scan has not
\* started has four empty maps, whatever other Inspectors have scanned.
C5_MapsOwnedByOneScan ==
    \A i \in 1..Len(insts) :
        runState[i] = "Created" =>
            SelfMaps(i) = <<EmptyMap, EmptyMap, EmptyMap, EmptyMap>>

\* C6: construction fails with an ArgumentError, and produces no Inspector,
\* when topdir does not exist, when start and end are both absent (with or
\* without window), and when one of start and end is given without window.
C6_Insufficient(c) ==
    \/ ~Exists(c.topdir)
    \/ IsNone(c.start) /\ IsNone(c.end)
    \/ ~IsNone(c.start) /\ IsNone(c.end) /\ IsNone(c.window)
    \/ IsNone(c.start) /\ ~IsNone(c.end) /\ IsNone(c.window)

C6_ArgumentErrorRaised ==
    (lastCall.result # "none" /\ C6_Insufficient(lastCall)) =>
        (lastCall.result = "ArgumentError" /\ insts = <<>>)

\* C7: with start and end given the window is (start, end) and window is
\* ignored; with start and window it is (start, start + window); with end
\* and window it is (end - window, end).
C7_ResolutionRules ==
    (lastCall.result # "none" /\ Exists(lastCall.topdir)) =>
        LET c == lastCall
            o == insts[Len(insts)]
        IN  /\ (~IsNone(c.start) /\ ~IsNone(c.end)) =>
                  /\ c.result = "ok"
                  /\ o.start = Val(c.start) /\ o.end = Val(c.end)
            /\ (~IsNone(c.start) /\ IsNone(c.end) /\ ~IsNone(c.window)) =>
                  /\ c.result = "ok"
                  /\ o.start = Val(c.start)
                  /\ o.end = Val(c.start) + Val(c.window)
            /\ (IsNone(c.start) /\ ~IsNone(c.end) /\ ~IsNone(c.window)) =>
                  /\ c.result = "ok"
                  /\ o.end = Val(c.end)
                  /\ o.start = Val(c.end) - Val(c.window)

\* C7 witness: an Inspector built from start and a nonzero window alone.
C7_Witness ==
    /\ lastCall.result = "ok"
    /\ ~IsNone(lastCall.start) /\ IsNone(lastCall.end) /\ ~IsNone(lastCall.window)
    /\ Val(lastCall.window) # 0
    /\ insts[1].end = Val(lastCall.start) + Val(lastCall.window)

KindFields == { [field |-> "ctime", dest |-> "created"],
                [field |-> "atime", dest |-> "accessed"],
                [field |-> "mtime", dest |-> "modified"] }

\* C8: a kind is recorded for a probed entry only if start < timestamp < end,
\* so never for a timestamp equal to start or to end; and once the three
\* tests of the entry are done, every kind with start < timestamp < end has
\* been recorded.
C8_StrictMembership ==
    cur # 0 =>
        \A kf \in KindFields :
            LET t == st[kf.field]
                o == insts[cur]
            IN  /\ (kf.dest \in recorded) => (o.start < t /\ t < o.end)
                /\ (kf.dest \in recorded) => (t # o.start /\ t # o.end)
                /\ (pc = "notify" /\ o.start < t /\ t < o.end) => kf.dest \in recorded

\* C8 witness: an entry with one timestamp equal to end, left out, one equal
\* to start, left out, or one inside the window, recorded.
C8_Witness ==
    /\ pc = "notify"
    /\ \E kf \in KindFields : st[kf.field] = insts[cur].end /\ kf.dest \notin recorded
    /\ \E kf \in KindFields :
          /\ insts[cur].start < st[kf.field] /\ st[kf.field] < insts[cur].end
          /\ kf.dest \in recorded

\* C8 witness of the lower bound: a timestamp equal to start, left out
C8_WitnessStart ==
    /\ pc = "notify"
    /\ \E kf \in KindFields : st[kf.field] = insts[cur].start /\ kf.dest \notin recorded

\* Entries of the tree: files, and the entry a key of a map stands for
FileEntries == { <<NmR, NmX>>, <<NmR, NmA, NmF>> }
IsKeyFor(m, e) == \E k \in DOMAIN m : Split(k) = Tail(e)
IsPrefix(a, b) == Len(a) <= Len(b) /\ SubSeq(b, 1, Len(a)) = a
Matches(e, field, o) ==
    broken[e] = "ok" /\ o.start < fs[e][field] /\ fs[e][field] < o.end

\* C9: after a completed scan a file with a timestamp inside the window is a
\* key of that kind's map, with the timestamp as value, and so is each of its
\* ancestor directories up to the scan root; an entry with no match at or
\* below it is a key of no map.  (A key stands for the entry its names
\* resolve to, with or without leading and trailing separators.)
C9_MatchesAndAncestorsAreKeys ==
    \A i \in 1..Len(insts) :
        runState[i] = "Done" =>
            /\ \A kf \in KindFields : \A e \in FileEntries :
                  Matches(e, kf.field, insts[i]) =>
                      /\ \E k \in DOMAIN DestMap(kf.dest) :
                            /\ Split(k) = Tail(e)
                            /\ DestMap(kf.dest)[k] = fs[e][kf.field]
                      /\ \A n \in 1..(Len(e) - 1) :
                            IsKeyFor(DestMap(kf.dest), SubSeq(e, 1, n))
            /\ \A e \in Entries :
                  (\A d \in Entries : \A kf \in KindFields :
                      IsPrefix(e, d) => ~Matches(d, kf.field, insts[i]))
                  => \A dest \in Kinds : ~IsKeyFor(DestMap(dest), e)

\* The map the calls cs leave behind, whatever their order: every path of a
\* call whose stamp is not below the sentinel, and every parent propagate
\* walks through from it, holds the largest stamp of the calls at or below it.
MapOf(cs) ==
    LET live == {c \in cs : c[2] >= Sentinel /\ c[1] # <<>>}
        keys == UNION {{c[1]} \cup Chain(c[1]) : c \in live}
        at(k) == {c[2] : c \in {x \in live : k = x[1] \/ k \in Chain(x[1])}}
    IN  [k \in keys |-> CHOOSE t \in at(k) : \A u \in at(k) : u <= t]

C11_Idempotent == last.again => created = before

\* C11 witness: a call that stored its stamp at its path and at a parent has
\* been repeated and has returned.
C11_Witness ==
    /\ pc = "idle" /\ last.again
    /\ last.path \in DOMAIN created /\ created[last.path] = last.stamp
    /\ \E A \in Chain(last.path) : A \in DOMAIN created /\ created[A] = last.stamp

\* C12: when stat of the path at hand raises PermissionError or
\* FileNotFoundError, the step that handles it stores the exception in errors
\* under topdir + path, changes none of the three maps, calls the error
\* callback exactly once with that path and exception if one is registered
\* (and not otherwise), and the scan moves to the next path, or completes if
\* there is none.
Recoverable == {"PermissionError", "FileNotFoundError"}

C12_RecoverableFailure ==
    [][(cur # 0 /\ pc = "stat" /\ Stat(FullPath).err \in Recoverable)
        => /\ errors' = Put(errors, FullPath, Stat(FullPath).err)
           /\ Split(FullPath) \in Entries
           /\ created' = created /\ accessed' = accessed /\ modified' = modified
           /\ errorLog' = IF insts[cur].errorCb
                          THEN Append(errorLog, [inst |-> cur, path |-> FullPath,
                                                 err |-> Stat(FullPath).err])
                          ELSE errorLog
           /\ matchLog' = matchLog
           /\ IF idx < Len(Paths)
              THEN cur' = cur /\ idx' = idx + 1 /\ pc' = "stat"
              ELSE cur' = 0 /\ runState'[cur] = "Done"]_vars

\* C12 witness: stat of an entry raised PermissionError, the exception is in
\* errors, the callback has been called once, and a later path has been
\* probed and matched.
C12_Witness ==
    /\ cur # 0 /\ pc = "notify" /\ candidate # 0
    /\ Len(errorLog) = 1
    /\ errorLog[1].err = "PermissionError"
    /\ errorLog[1].path \in DOMAIN errors
    /\ errors[errorLog[1].path] = "PermissionError"
    /\ errorLog[1].path # FullPath

\* Number of calls of the match callback made by Inspector i for fullpath
Notified(i, fullpath) ==
    Cardinality({m \in 1..Len(matchLog) :
                    matchLog[m].inst = i /\ matchLog[m].path = fullpath})

\* C13: with a match callback registered, every path the running scan has
\* finished with whose stat succeeded and has a timestamp with
\* start < t < end, whatever t is, has caused exactly one call of the
\* callback, with topdir + path and the stat record; every other path has
\* caused none, and no call is made for a path before _check is through with
\* its three tests and their propagate calls.
C13_CallbackOncePerMatch ==
    (cur # 0 /\ insts[cur].matchesCb) =>
        \A j \in 1..Len(Paths) :
            LET full == insts[cur].topdir \o Paths[j]
                r    == Stat(full)
            IN  IF /\ j < idx
                   /\ r.err = ""
                   /\ \E kf \in KindFields :
                         insts[cur].start < r.rec[kf.field]
                            /\ r.rec[kf.field] < insts[cur].end
                THEN /\ Notified(cur, full) = 1
                     /\ \A m \in 1..Len(matchLog) :
                           matchLog[m].path = full => matchLog[m].st = r.rec
                ELSE Notified(cur, full) = 0

\* The entries at or below the entry a key stands for that match a kind
MatchesBelow(k, field, o) ==
    {e \in Entries : IsPrefix(Split(k), Tail(e)) /\ Matches(e, field, o)}

\* C14: after a completed scan every key of every map, the key "a/" under
\* which a directory itself is recorded included, carries the largest
\* timestamp of that kind with start < t < end among the entries at or below
\* the key's path.
C14_KeyHoldsMaxBelow ==
    \A i \in 1..Len(insts) :
        runState[i] = "Done" =>
            \A kf \in KindFields : \A k \in DOMAIN DestMap(kf.dest) :
                \E e \in MatchesBelow(k, kf.field, insts[i]) :
                    /\ DestMap(kf.dest)[k] = fs[e][kf.field]
                    /\ \A f \in MatchesBelow(k, kf.field, insts[i]) :
                          fs[f][kf.field] <= fs[e][kf.field]

\* The kind a test of _check is about
KindAt(label) == CHOOSE kf \in KindFields :
                    \/ label = "ctime" /\ kf.field = "ctime"
                    \/ label = "atime" /\ kf.field = "atime"
                    \/ label = "mtime" /\ kf.field = "mtime"

\* C15: the kinds are tracked independently.  A step of a scan changes a
\* kind's map only while propagating for that kind the timestamp of that
\* kind of the entry at hand, which lies strictly inside the window, and the
\* other two maps stay as they are; each of the three tests of an entry
\* calls propagate on its own map with its own timestamp when that timestamp
\* is inside the window, and touches no map when it is not.
C15_KindsIndependent ==
    [][cur # 0 =>
        /\ \A kf \in KindFields :
              DestMap(kf.dest)' # DestMap(kf.dest) =>
                  /\ pc = "propagate" /\ pdest = kf.dest
                  /\ pstamp = st[kf.field]
                  /\ insts[cur].start < st[kf.field]
                  /\ st[kf.field] < insts[cur].end
                  /\ DestMap(kf.dest)' = Put(DestMap(kf.dest), ppath, st[kf.field])
                  /\ \A o \in KindFields \ {kf} : DestMap(o.dest)' = DestMap(o.dest)
        /\ pc \in {"ctime", "atime", "mtime"} =>
              LET kf == KindAt(pc)
              IN  /\ created' = created /\ accessed' = accessed
                  /\ modified' = modified
                  /\ IF insts[cur].start < st[kf.field]
                        /\ st[kf.field] < insts[cur].end
                     THEN /\ pc' = "propagate" /\ pdest' = kf.dest
                          /\ ppath' = CurPath /\ pstamp' = st[kf.field]
                     ELSE pc' # "propagate"]_vars

\* C15 witness: an entry whose ctime and atime both match and differ has
\* been through its three tests; created holds its ctime and accessed its
\* atime.
C15_Witness ==
    /\ cur # 0 /\ pc = "notify"
    /\ {"created", "accessed"} \subseteq recorded
    /\ st["ctime"] # st["atime"]
    /\ CurPath \in DOMAIN created /\ created[CurPath] = st["ctime"]
    /\ CurPath \in DOMAIN accessed /\ accessed[CurPath] = st["atime"]

\* C16: propagate is monotonic: no step of it removes a key of the map or
\* lowers the value stored at a key.
C16_Monotonic ==
    [][\A k \in DOMAIN created :
          k \in DOMAIN created' /\ created'[k] >= created[k]]_vars

\* C16 witness: a call has returned that stored its stamp at its path and
\* met a parent holding a larger stamp, which the parent still holds.
C16_Witness ==
    /\ pc = "idle" /\ ~last.again
    /\ last.path \in DOMAIN created /\ last.path \notin DOMAIN before
    /\ created[last.path] = last.stamp
    /\ \E k \in Chain(last.path) \cap DOMAIN before :
          before[k] > last.stamp /\ created[k] = before[k]

\* A stamp some Inspector can match: start < t < end for a window the
\* constructor resolves
Matchable(t) ==
    \E w \in ScanWindows :
        LET r == resolve(w.start, w.end, w.window)
        IN  r.err = "" /\ r.start < t /\ t < r.end

\* C17: the value propagate uses for an absent path is below every stamp
\* that can match: after propagate(map, path, t) with no entry at path
\* before the call and a t strictly inside a window the constructor
\* resolves, negative start included, the map holds t at path.
C17_SentinelBelowEveryStamp ==
    (/\ pc = "idle" /\ calls # {}
     /\ last.path # <<>> /\ last.path \notin DOMAIN before
     /\ Matchable(last.stamp))
        => last.path \in DOMAIN created /\ created[last.path] = last.stamp

\* C18: while an Inspector scans, every value in created, accessed and
\* modified, which are the maps its attributes of those names give, lies
\* strictly inside that Inspector's window, also when Inspectors with other
\* windows have scanned before.
C18_ValuesInsideOwnWindow ==
    cur # 0 =>
        \A kf \in KindFields : \A k \in DOMAIN DestMap(kf.dest) :
            /\ insts[cur].start < DestMap(kf.dest)[k]
            /\ DestMap(kf.dest)[k] < insts[cur].end
====
